---- MODULE Spec2Model ----
(***************************************************************************)
(* Model of "Week 1/keccak256.py": a script that reads one line of text,   *)
(* asks the shell to clear the screen, echoes the text, encodes it as      *)
(* UTF-8, hashes the bytes with Keccak-256 and prints the hex digest.      *)
(*                                                                         *)
(* Text (str) is a sequence of Unicode code points, bytes are a sequence   *)
(* of 0..255, and standard output is the sequence of code points written.  *)
(* A 64-bit Keccak lane is the set of its bit positions that are 1, and    *)
(* the Keccak state is the tuple of its 25 lanes.                          *)
(***************************************************************************)
EXTENDS Integers, Sequences, FiniteSets, TLC

\* ------------------------------------------------------------------ bounds

\* Longest content of standard input explored in a single run.
MaxLen == 2
\* Longest content of standard input explored when the script is run repeatedly.
MaxLenRuns == 1
\* Length of the one long line explored (a full Keccak block and more).
LongLen == 136

\* ------------------------------------------------------- text of the script

\* "Implementasi Keccak 256 di python\n"
TITLE ==
  <<73, 109, 112, 108, 101, 109, 101, 110, 116, 97, 115, 105, 32, 75, 101, 99, 99, 97, 107,
    32, 50, 53, 54, 32, 100, 105, 32, 112, 121, 116, 104, 111, 110, 10>>

\* "+++++++++++++++++++++++++++++++++++++"
RULE ==
  <<43, 43, 43, 43, 43, 43, 43, 43, 43, 43, 43, 43, 43, 43, 43, 43, 43, 43, 43, 43, 43, 43,
    43, 43, 43, 43, 43, 43, 43, 43, 43, 43, 43, 43, 43, 43, 43>>

\* "Masukan Nama Ibu kandung: "
PROMPT ==
  <<77, 97, 115, 117, 107, 97, 110, 32, 78, 97, 109, 97, 32, 73, 98, 117, 32, 107, 97, 110,
    100, 117, 110, 103, 58, 32>>

\* "Nama Ibu kandung sebelum di hash: \n"
LABEL_BEFORE ==
  <<78, 97, 109, 97, 32, 73, 98, 117, 32, 107, 97, 110, 100, 117, 110, 103, 32, 115, 101,
    98, 101, 108, 117, 109, 32, 100, 105, 32, 104, 97, 115, 104, 58, 32, 10>>

\* "Nama Ibu kandung setelah di hash: \n"
LABEL_AFTER ==
  <<78, 97, 109, 97, 32, 73, 98, 117, 32, 107, 97, 110, 100, 117, 110, 103, 32, 115, 101,
    116, 101, 108, 97, 104, 32, 100, 105, 32, 104, 97, 115, 104, 58, 32, 10>>

\* ------------------------------------------------------------- environment

NEWLINE == <<10>>
SPACE == <<32>>

\* The lone surrogates U+D800..U+DFFF: what the surrogateescape error handler
\* of sys.stdin (POSIX locale, UTF-8 mode) turns an undecodable byte into.
IsSurrogate(cp) == cp >= 55296 /\ cp <= 57343

\* Code points standard input may hold: the space, "a" (1 byte in UTF-8),
\* U+00E9 (2 bytes), U+20AC (3 bytes), U+1F600 (4 bytes), the lone surrogate
\* U+DCFF (byte 0xFF read under surrogateescape) and the line feed.
Chars == {32, 97, 233, 8364, 128512, 56575}
StdinChars == Chars \cup {10}

\* Every content of standard input of at most n code points; <<>> is a closed
\* or exhausted stream.
StdinContents(n) == UNION {[1..k -> StdinChars] : k \in 0..n}

LongLine == [i \in 1..LongLen |-> 97] \o NEWLINE

\* Exit statuses os.system('CLS') can return: 0 where the shell knows CLS,
\* 32512 (127 << 8) where the shell reports "CLS: not found".
SystemStatuses == {0, 32512}

\* The value of a name that has not been assigned yet.
Unset == <<-1>>

\* ---------------------------------------------------------------- builtins

\* print(*args): the arguments separated by one space, then a line feed.
RECURSIVE Join(_)
Join(args) ==
  IF Len(args) = 0 THEN <<>>
  ELSE IF Len(args) = 1 THEN args[1]
  ELSE args[1] \o SPACE \o Join(Tail(args))

print(args) == Join(args) \o NEWLINE

\* The position of the first line feed in s, or Len(s) + 1 when there is none.
LineEnd(s) ==
  CHOOSE i \in 1..(Len(s) + 1) :
    /\ i = Len(s) + 1 \/ s[i] = 10
    /\ \A j \in 1..(i - 1) : s[j] # 10

\* input() as it would be with the EOFError caught and "" returned instead.
input_or_empty(stream) ==
  LET e == LineEnd(stream)
  IN  [eof |-> FALSE,
       line |-> SubSeq(stream, 1, e - 1),
       rest |-> SubSeq(stream, e + 1, Len(stream))]

\* input(): EOFError when the stream is at its end, else the next line without
\* its line feed; the stream keeps what follows the line.
input(stream) ==
  IF stream = <<>>
  THEN [eof |-> TRUE, line |-> Unset, rest |-> stream]
  ELSE LET e == LineEnd(stream)
       IN  [eof |-> FALSE,
            line |-> SubSeq(stream, 1, e - 1),
            rest |-> SubSeq(stream, e + 1, Len(stream))]

\* str.encode() with its defaults: UTF-8, errors='strict'.
EncodeChar(cp) ==
  IF cp < 128 THEN <<cp>>
  ELSE IF cp < 2048 THEN <<192 + (cp \div 64), 128 + (cp % 64)>>
  ELSE IF cp < 65536
       THEN <<224 + (cp \div 4096), 128 + ((cp \div 64) % 64), 128 + (cp % 64)>>
  ELSE <<240 + (cp \div 262144), 128 + ((cp \div 4096) % 64),
         128 + ((cp \div 64) % 64), 128 + (cp % 64)>>

\* UnicodeEncodeError ("surrogates not allowed") is raised unless this holds.
CanEncode(s) == \A i \in 1..Len(s) : ~IsSurrogate(s[i])

\* The encodings of the characters, concatenated (the text is halved rather
\* than walked, which keeps the evaluation shallow on a long line).
RECURSIVE encode(_)
encode(s) ==
  IF Len(s) = 0 THEN <<>>
  ELSE IF Len(s) = 1 THEN EncodeChar(s[1])
  ELSE LET half == Len(s) \div 2
       IN  encode(SubSeq(s, 1, half)) \o encode(SubSeq(s, half + 1, Len(s)))

\* ------------------------------------------------------ sha3.keccak_256

\* The sponge's rate in bytes: 1600 - 2 * 256 bits.
RATE == 136

\* The 24 round constants of Keccak-f[1600], each the set of its 1 bits.
RoundConstants ==
  <<{0}, {1, 7, 15}, {1, 3, 7, 15, 63}, {15, 31, 63}, {0, 1, 3, 7, 15}, {0, 31},
    {0, 7, 15, 31, 63}, {0, 3, 15, 63}, {1, 3, 7}, {3, 7}, {0, 3, 15, 31}, {1, 3, 31},
    {0, 1, 3, 7, 15, 31}, {0, 1, 3, 7, 63}, {0, 3, 7, 15, 63}, {0, 1, 15, 63},
    {1, 15, 63}, {7, 63}, {1, 3, 15}, {1, 3, 31, 63}, {0, 7, 15, 31, 63}, {7, 15, 63},
    {0, 31}, {3, 15, 31, 63}>>

\* The rotation of lane (x, y), at index x + 5 * y + 1.
RotationOffsets ==
  <<0, 1, 62, 28, 27, 36, 44, 6, 55, 20, 3, 10, 43, 25, 39, 41, 45, 15, 21, 8, 18, 2, 61,
    56, 14>>

Xor(a, b) == (a \ b) \cup (b \ a)
Rotl(a, n) == {(i + n) % 64 : i \in a}

\* The values of f at 0..4 and at 0..24 as a tuple, each worked out once.
Tuple5(f) == <<f[0], f[1], f[2], f[3], f[4]>>
Tuple25(f) ==
  <<f[0], f[1], f[2], f[3], f[4], f[5], f[6], f[7], f[8], f[9], f[10], f[11], f[12],
    f[13], f[14], f[15], f[16], f[17], f[18], f[19], f[20], f[21], f[22], f[23], f[24]>>

\* Lane (x, y) of the state A, a tuple of 25 lanes.
Lane(A, x, y) == A[(x % 5) + 5 * (y % 5) + 1]

\* One round of Keccak-f[1600]: theta, rho and pi, chi, iota.
Round(A, r) ==
  LET c(x) == Xor(Xor(Xor(Xor(Lane(A, x, 0), Lane(A, x, 1)), Lane(A, x, 2)),
                      Lane(A, x, 3)), Lane(A, x, 4))
      C == Tuple5([x \in 0..4 |-> c(x)])
      d(x) == Xor(C[((x + 4) % 5) + 1], Rotl(C[((x + 1) % 5) + 1], 1))
      D == Tuple5([x \in 0..4 |-> d(x)])
      t(i) == Xor(A[i + 1], D[(i % 5) + 1])
      T == Tuple25([i \in 0..24 |-> t(i)])
      \* B[y, 2x + 3y] = rot(T[x, y]): lane (X, Y) of B comes from x = X + 3Y, y = X.
      b(i) == LET X == i % 5
                  Y == i \div 5
                  sx == (X + 3 * Y) % 5
              IN  Rotl(Lane(T, sx, X), RotationOffsets[sx + 5 * X + 1])
      B == Tuple25([i \in 0..24 |-> b(i)])
      h(i) == LET hx == i % 5
                  hy == i \div 5
              IN  Xor(Lane(B, hx, hy), Lane(B, hx + 2, hy) \ Lane(B, hx + 1, hy))
      H == Tuple25([i \in 0..24 |-> h(i)])
  IN  [H EXCEPT ![1] = Xor(H[1], RoundConstants[r])]

\* Rounds r..24 of the permutation (the test on Len(A) has the state of one
\* round evaluated before the next round starts).
RECURSIVE KeccakF(_, _)
KeccakF(A, r) == IF Len(A) # 25 \/ r > 24 THEN A ELSE KeccakF(Round(A, r), r + 1)

\* The padding of the standardised SHA3-256 (hashlib.sha3_256): domain byte 0x06.
PadSha3(data) ==
  LET n == RATE - (Len(data) % RATE)
  IN  IF n = 1 THEN data \o <<134>>
      ELSE data \o <<6>> \o [i \in 1..(n - 2) |-> 0] \o <<128>>

\* Keccak's pad10*1 with the original domain byte 0x01 (SHA-3 uses 0x06).
Pad(data) ==
  LET n == RATE - (Len(data) % RATE)
  IN  IF n = 1 THEN data \o <<129>>
      ELSE data \o <<1>> \o [i \in 1..(n - 2) |-> 0] \o <<128>>

\* Lane i of a block of RATE bytes, little-endian; the capacity lanes are 0.
BlockLane(blk, i) ==
  {j \in 0..63 : i < RATE \div 8 /\ (blk[8 * i + (j \div 8) + 1] \div (2 ^ (j % 8))) % 2 = 1}

RECURSIVE Absorb(_, _)
Absorb(A, p) ==
  IF p = <<>> THEN A
  ELSE LET blk == SubSeq(p, 1, RATE)
           a(i) == Xor(A[i + 1], BlockLane(blk, i))
       IN  Absorb(KeccakF(Tuple25([i \in 0..24 |-> a(i)]), 1), SubSeq(p, RATE + 1, Len(p)))

\* The byte made of bits lo .. lo + 7 of a lane.
RECURSIVE BitsValue(_, _, _)
BitsValue(lane, lo, k) ==
  IF k = 8 THEN 0
  ELSE (IF lo + k \in lane THEN 2 ^ k ELSE 0) + BitsValue(lane, lo, k + 1)

\* The first 32 of the state's 200 bytes.
Squeeze(A) ==
  SubSeq([i \in 1..200 |-> BitsValue(A[((i - 1) \div 8) + 1], 8 * ((i - 1) % 8), 0)],
         1, 32)

\* sha3.keccak_256(data): the hash object, held as the digest it will give.
keccak_256(data) == Squeeze(Absorb([i \in 1..25 |-> {}], Pad(data)))

\* "0123456789abcdef"
HexDigits == <<48, 49, 50, 51, 52, 53, 54, 55, 56, 57, 97, 98, 99, 100, 101, 102>>

\* "0123456789ABCDEF"
HexDigitsUpper == <<48, 49, 50, 51, 52, 53, 54, 55, 56, 57, 65, 66, 67, 68, 69, 70>>

\* hexdigest().upper(): the digest in uppercase hex digits.
hexdigest_upper(digest) ==
  [i \in 1..(2 * Len(digest)) |->
     LET byte == digest[(i + 1) \div 2]
     IN  HexDigitsUpper[(IF i % 2 = 1 THEN byte \div 16 ELSE byte % 16) + 1]]

\* hexdigest(): two lowercase hex digits per byte, high nibble first.
hexdigest(digest) ==
  [i \in 1..(2 * Len(digest)) |->
     LET byte == digest[(i + 1) \div 2]
     IN  HexDigits[(IF i % 2 = 1 THEN byte \div 16 ELSE byte % 16) + 1]]

\* ------------------------------------------------------------ the script

VARIABLES
  pc,           \* the line of the script about to run, or "end"
  stdin,        \* what standard input still holds
  stdout,       \* everything written to standard output
  nama_ibu,     \* the text read (line 8)
  encoded,      \* its bytes (line 11)
  obj_encoded,  \* the hash object (line 12)
  cls_status,   \* what os.system('CLS') returned, -1 before the call
  status,       \* the process's exit status, -1 while it runs
  exc,          \* the uncaught exception that ended the run, "" when none
  trace,        \* the calls made so far, in order
  prev          \* the previous run of the script, as seen from outside

vars ==
  <<pc, stdin, stdout, nama_ibu, encoded, obj_encoded, cls_status, status, exc, trace, prev>>

\* Nothing is known of a previous run: status -1.
NoRun == [text |-> Unset, cls |-> -1, out |-> <<>>, status |-> -1, exc |-> ""]

\* A fresh process on line 6, its standard input holding `content`.
Start(content) ==
  /\ pc = "L6"
  /\ stdin = content
  /\ stdout = <<>>
  /\ nama_ibu = Unset
  /\ encoded = Unset
  /\ obj_encoded = Unset
  /\ cls_status = -1
  /\ status = -1
  /\ exc = ""
  /\ trace = <<>>

Init ==
  /\ \E content \in StdinContents(MaxLen) \cup {LongLine} : Start(content)
  /\ prev = NoRun

InitRuns ==
  /\ \E content \in StdinContents(MaxLenRuns) : Start(content)
  /\ prev = NoRun

\* The order of the statements were the screen cleared after the echo of the
\* text and before the digest: lines 8, 10, 9, 11.
AfterEchoFirst(line) ==
  CASE line = "L6" -> "L7"
    [] line = "L7" -> "L8"
    [] line = "L8" -> "L10"
    [] line = "L10" -> "L9"
    [] line = "L9" -> "L11"
    [] line = "L11" -> "L12"
    [] line = "L12" -> "L13"
    [] line = "L13" -> "end"

\* The statement that follows a statement that returned normally.
After(line) ==
  CASE line = "L6" -> "L7"
    [] line = "L7" -> "L8"
    [] line = "L8" -> "L9"
    [] line = "L9" -> "L10"
    [] line = "L10" -> "L11"
    [] line = "L11" -> "L12"
    [] line = "L12" -> "L13"
    [] line = "L13" -> "end"

\* The process ends when the last statement has returned: exit status 0.
StatusAfter(line) == IF After(line) = "end" THEN 0 ELSE -1

\* An uncaught exception: the traceback is printed and the exit status is 1.
Raise(e, call) ==
  /\ pc' = "end"
  /\ status' = 1
  /\ exc' = e
  /\ trace' = Append(trace, call)

\* The statement on `line` returned, having made `call`.
Return(line, call) ==
  /\ pc' = After(line)
  /\ status' = StatusAfter(line)
  /\ exc' = exc
  /\ trace' = Append(trace, call)

\* Line 6: print("Implementasi Keccak 256 di python\n")
PrintTitle ==
  /\ pc = "L6"
  /\ stdout' = stdout \o print(<<TITLE>>)
  /\ Return("L6", "print_title")
  /\ UNCHANGED <<stdin, nama_ibu, encoded, obj_encoded, cls_status, prev>>

\* Line 7: print("+++++++++++++++++++++++++++++++++++++")
PrintRule ==
  /\ pc = "L7"
  /\ stdout' = stdout \o print(<<RULE>>)
  /\ Return("L7", "print_rule")
  /\ UNCHANGED <<stdin, nama_ibu, encoded, obj_encoded, cls_status, prev>>

\* Line 8: nama_ibu = input("Masukan Nama Ibu kandung: ")
Input ==
  /\ pc = "L8"
  /\ stdout' = stdout \o PROMPT
  /\ LET r == input(stdin)
     IN  IF r.eof
         THEN /\ Raise("EOFError", "input")
              /\ UNCHANGED <<stdin, nama_ibu>>
         ELSE /\ nama_ibu' = r.line
              /\ stdin' = r.rest
              /\ Return("L8", "input")
  /\ UNCHANGED <<encoded, obj_encoded, cls_status, prev>>

\* Line 9 as subprocess.check_call would run it: a status other than 0 raises.
ClearChecked ==
  /\ pc = "L9"
  /\ \E st \in SystemStatuses :
       /\ cls_status' = st
       /\ IF st = 0 THEN Return("L9", "system")
          ELSE Raise("CalledProcessError", "system")
  /\ UNCHANGED <<stdin, stdout, nama_ibu, encoded, obj_encoded, prev>>

\* Line 9: os.system('CLS'); the status returned is dropped.
Clear ==
  /\ pc = "L9"
  /\ \E st \in SystemStatuses : cls_status' = st
  /\ Return("L9", "system")
  /\ UNCHANGED <<stdin, stdout, nama_ibu, encoded, obj_encoded, prev>>

\* str.strip() of the spaces at both ends.
strip(s) ==
  LET kept == {i \in 1..Len(s) : s[i] # 32}
  IN  IF kept = {} THEN <<>>
      ELSE SubSeq(s, CHOOSE i \in kept : \A j \in kept : i <= j,
                     CHOOSE i \in kept : \A j \in kept : i >= j)

\* Line 10 were the text stripped for display: print(..., nama_ibu.strip())
EchoStripped ==
  /\ pc = "L10"
  /\ stdout' = stdout \o print(<<LABEL_BEFORE, strip(nama_ibu)>>)
  /\ Return("L10", "print_text")
  /\ UNCHANGED <<stdin, nama_ibu, encoded, obj_encoded, cls_status, prev>>

\* Line 10: print("Nama Ibu kandung sebelum di hash: \n", nama_ibu)
Echo ==
  /\ pc = "L10"
  /\ stdout' = stdout \o print(<<LABEL_BEFORE, nama_ibu>>)
  /\ Return("L10", "print_text")
  /\ UNCHANGED <<stdin, nama_ibu, encoded, obj_encoded, cls_status, prev>>

\* Line 11 were the line hashed with its line feed, as sys.stdin.readline()
\* returns it: encoded = (nama_ibu + "\n").encode()
EncodeWithNewline ==
  /\ pc = "L11"
  /\ IF CanEncode(nama_ibu)
     THEN /\ encoded' = encode(nama_ibu \o NEWLINE)
          /\ Return("L11", "encode")
     ELSE /\ Raise("UnicodeEncodeError", "encode")
          /\ UNCHANGED encoded
  /\ UNCHANGED <<stdin, stdout, nama_ibu, obj_encoded, cls_status, prev>>

\* Line 11: encoded = nama_ibu.encode()
Encode ==
  /\ pc = "L11"
  /\ IF CanEncode(nama_ibu)
     THEN /\ encoded' = encode(nama_ibu)
          /\ Return("L11", "encode")
     ELSE /\ Raise("UnicodeEncodeError", "encode")
          /\ UNCHANGED encoded
  /\ UNCHANGED <<stdin, stdout, nama_ibu, obj_encoded, cls_status, prev>>

\* Line 12 were the hash salted per process, as the builtin hash() is.
HashSalted ==
  /\ pc = "L12"
  /\ \E salt \in {0, 1} : obj_encoded' = keccak_256(<<salt>> \o encoded)
  /\ Return("L12", "keccak_256")
  /\ UNCHANGED <<stdin, stdout, nama_ibu, encoded, cls_status, prev>>

\* Line 12: obj_encoded = sha3.keccak_256(encoded)
Hash ==
  /\ pc = "L12"
  /\ obj_encoded' = keccak_256(encoded)
  /\ Return("L12", "keccak_256")
  /\ UNCHANGED <<stdin, stdout, nama_ibu, encoded, cls_status, prev>>

\* Line 13: print("Nama Ibu kandung setelah di hash: \n", obj_encoded.hexdigest())
PrintDigest ==
  /\ pc = "L13"
  /\ stdout' = stdout \o print(<<LABEL_AFTER, hexdigest(obj_encoded)>>)
  /\ Return("L13", "print_digest")
  /\ UNCHANGED <<stdin, nama_ibu, encoded, obj_encoded, cls_status, prev>>

\* The script is run again: a new process, that keeps nothing of the last one.
Restart ==
  /\ pc = "end"
  /\ prev' = [text |-> nama_ibu, cls |-> cls_status, out |-> stdout,
              status |-> status, exc |-> exc]
  /\ pc' = "L6"
  /\ \E content \in StdinContents(MaxLenRuns) : stdin' = content
  /\ stdout' = <<>>
  /\ nama_ibu' = Unset
  /\ encoded' = Unset
  /\ obj_encoded' = Unset
  /\ cls_status' = -1
  /\ status' = -1
  /\ exc' = ""
  /\ trace' = <<>>

Step ==
  \/ PrintTitle
  \/ PrintRule
  \/ Input
  \/ Clear
  \/ Echo
  \/ Encode
  \/ Hash
  \/ PrintDigest

Next == Step

NextRuns == Step \/ Restart

\* One run of the script.
Spec == Init /\ [][Next]_vars

\* The script run any number of times, one run after the other.
SpecRuns == InitRuns /\ [][NextRuns]_vars

\* ---------------------------------------------------------------- claims

\* The positions of `call` in the trace, whether and how often it was made,
\* and whether every call of a came before every call of b.
Calls(call) == {i \in 1..Len(trace) : trace[i] = call}
Called(call) == Calls(call) # {}
Count(call) == Cardinality(Calls(call))
Before(a, b) == Called(a) /\ Called(b) /\ \A i \in Calls(a) : \A j \in Calls(b) : i < j

IsPrefix(p, s) == Len(p) <= Len(s) /\ SubSeq(s, 1, Len(p)) = p

\* What the terminal shows before the echoed text: the title, the rule, the
\* prompt and the label of line 10.
HEADER == TITLE \o NEWLINE \o RULE \o NEWLINE \o PROMPT \o LABEL_BEFORE

\* The last complete line of standard output, without its line feed.
LastLine(out) ==
  LET feeds == {i \in 1..(Len(out) - 1) : out[i] = 10}
      from == CHOOSE i \in feeds : \A j \in feeds : i >= j
  IN  SubSeq(out, from + 1, Len(out) - 1)

\* The digest as printed: the last line, after the separating space.
PrintedDigest == Tail(LastLine(stdout))

LowerHex == (48..57) \cup (97..102)
HasNonAscii(s) == \E i \in 1..Len(s) : s[i] > 127

\* The five steps of the run, in the order of the script.
StraightLine == <<"input", "system", "encode", "keccak_256", "print_digest">>
IsStep(call) == \E i \in 1..Len(StraightLine) : StraightLine[i] = call
RECURSIVE StepsOf(_)
StepsOf(t) ==
  IF t = <<>> THEN <<>>
  ELSE IF IsStep(Head(t)) THEN <<Head(t)>> \o StepsOf(Tail(t))
  ELSE StepsOf(Tail(t))

\* C1: whenever a digest has been printed, it is the lowercase hex rendering of
\* Keccak-256 of the UTF-8 encoding of the text read; the bytes hashed are the
\* encoding of that text and nothing else is hashed or printed as the digest.
C1_DigestOfTextRead ==
  /\ Called("encode") /\ exc = "" => encoded = encode(nama_ibu)
  /\ Called("keccak_256") => obj_encoded = keccak_256(encode(nama_ibu))
  /\ Called("print_digest") =>
       /\ PrintedDigest = hexdigest(keccak_256(encode(nama_ibu)))
       /\ IsPrefix(HEADER \o SPACE \o nama_ibu \o NEWLINE \o LABEL_AFTER \o SPACE, stdout)
  /\ Count("keccak_256") <= 1
  /\ Count("print_digest") <= 1

C1_Witness ==
  /\ Called("print_digest")
  /\ Len(nama_ibu) = 2
  /\ HasNonAscii(nama_ibu)

\* C2: once the text has been echoed, standard output holds, after the header,
\* a space, exactly the text read and a line feed; and the digest is printed
\* only after that echo.
C2_EchoExactAndFirst ==
  /\ Called("print_text") => IsPrefix(HEADER \o SPACE \o nama_ibu \o NEWLINE, stdout)
  /\ Called("print_digest") => Before("print_text", "print_digest")
  /\ Count("print_text") <= 1

C2_Witness ==
  /\ Called("print_digest")
  /\ nama_ibu = <<32, 97>>

\* C3 as stated: the screen is cleared after the text has been printed and
\* before the digest is printed.
C3_ClearBetweenOutputs ==
  Called("system") =>
    /\ Before("print_text", "system")
    /\ Called("print_digest") => Before("system", "print_digest")

\* C3, amended: the screen is cleared after the line has been read and before
\* the text is printed, hence before both outputs.
C3_ClearBeforeOutputs ==
  /\ Called("system") => Before("input", "system")
  /\ Called("print_text") => Before("system", "print_text")
  /\ Called("print_digest") => Before("system", "print_digest")
  /\ Count("system") <= 1

C3_Witness ==
  /\ Called("system")
  /\ Called("print_text")
  /\ Called("print_digest")

\* C4: a read at the end of standard input ends the run with EOFError and exit
\* status 1, and such a run has read once and has not cleared the screen,
\* echoed, encoded, hashed or printed a digest.
C4_InputUnavailable ==
  /\ [][pc = "L8" /\ stdin = <<>> =>
          pc' = "end" /\ status' = 1 /\ exc' = "EOFError" /\ nama_ibu' = Unset]_vars
  /\ [](exc = "EOFError" =>
          /\ pc = "end" /\ status = 1
          /\ Count("input") = 1
          /\ ~Called("system") /\ ~Called("print_text") /\ ~Called("encode")
          /\ ~Called("keccak_256") /\ ~Called("print_digest")
          /\ cls_status = -1 /\ encoded = Unset /\ obj_encoded = Unset
          /\ stdout = TITLE \o NEWLINE \o RULE \o NEWLINE \o PROMPT)

C4_Witness ==
  /\ exc = "EOFError"
  /\ stdin = <<>>
  /\ pc = "end"

\* C5: whatever os.system returns, the run goes on to line 10 with no error;
\* and two runs that read the same text and got different statuses from the
\* clear request end with the same output, exit status and exception.
C5_ClearOutcomeIgnored ==
  /\ Called("system") /\ trace[Len(trace)] = "system" =>
       pc = "L10" /\ status = -1 /\ exc = ""
  /\ exc # "" => exc \in {"EOFError", "UnicodeEncodeError"}
  /\ pc = "end" /\ prev.status # -1 /\ prev.text = nama_ibu /\ prev.cls # cls_status =>
       stdout = prev.out /\ status = prev.status /\ exc = prev.exc

C5_Witness ==
  /\ pc = "end" /\ status = 0
  /\ prev.status = 0 /\ prev.text = nama_ibu
  /\ prev.cls = 0 /\ cls_status = 32512
  /\ Called("print_digest")

\* C6 as stated: once a line has been read the run never ends in an error.
C6_NoErrorAfterRead == nama_ibu # Unset => status # 1 /\ exc = ""

\* C7: a printed digest is 64 characters, each a lowercase hex digit.
C7_DigestIs64LowerHex ==
  Called("print_digest") =>
    /\ Len(PrintedDigest) = 64
    /\ \A i \in 1..Len(PrintedDigest) : PrintedDigest[i] \in LowerHex

C7_Witness ==
  /\ Called("print_digest")
  /\ Len(nama_ibu) = LongLen

\* "c5d2460186f7233c927e7db2dcc703c0e500b653ca82273b7bfad8045d85a47": the
\* digest of the empty string as the specification gives it, 63 characters.
EMPTY_DIGEST_AS_STATED ==
  <<99, 53, 100, 50, 52, 54, 48, 49, 56, 54, 102, 55, 50, 51, 51, 99, 57, 50, 55, 101, 55,
    100, 98, 50, 100, 99, 99, 55, 48, 51, 99, 48, 101, 53, 48, 48, 98, 54, 53, 51, 99, 97,
    56, 50, 50, 55, 51, 98, 55, 98, 102, 97, 100, 56, 48, 52, 53, 100, 56, 53, 97, 52, 55>>

\* "c5d2460186f7233c927e7db2dcc703c0e500b653ca82273b7bfad8045d85a470"
EMPTY_DIGEST == EMPTY_DIGEST_AS_STATED \o <<48>>

\* C8 as stated: a run that reads the empty line prints the 63 characters the
\* specification gives.
C8_EmptyDigestAsStated ==
  Called("print_digest") /\ nama_ibu = <<>> => PrintedDigest = EMPTY_DIGEST_AS_STATED

\* C8, amended: a run that reads the empty line prints
\* c5d2460186f7233c927e7db2dcc703c0e500b653ca82273b7bfad8045d85a470.
C8_EmptyDigest ==
  Called("print_digest") /\ nama_ibu = <<>> => PrintedDigest = EMPTY_DIGEST

C8_Witness ==
  /\ Called("print_digest")
  /\ nama_ibu = <<>>

\* C9: two runs that read the same text end alike: the same standard output
\* (the echoed text and the digest with it), exit status and exception,
\* whatever the clear request returned and whatever the run before did.
C9_Deterministic ==
  pc = "end" /\ prev.status # -1 /\ prev.text = nama_ibu =>
    stdout = prev.out /\ status = prev.status /\ exc = prev.exc

C9_Witness ==
  /\ pc = "end" /\ status = 0
  /\ prev.status = 0 /\ prev.text = nama_ibu
  /\ HasNonAscii(nama_ibu)
  /\ Len(PrintedDigest) = 64

\* C10 as stated: a run that read a line is, when it has ended, exactly the
\* five steps in order, each made once: read, clear, encode, hash, print.
C10_StraightLine ==
  /\ nama_ibu # Unset => IsPrefix(StepsOf(trace), StraightLine)
  /\ nama_ibu # Unset /\ pc = "end" => StepsOf(trace) = StraightLine /\ status = 0

====
